---- MODULE Spec2Model ----
(***************************************************************************)
(* Cost aggregation engine of innovation-sandbox-on-aws:                   *)
(* AccountsCostReport, batch and CostExplorerService                       *)
(* (source/common/lambda/environments/release-checker-environment.ts).     *)
(*                                                                         *)
(* Time is an integer count of slots since an epoch at midnight UTC; an    *)
(* hour is SlotsPerHour slots, so that a timestamp can lie strictly inside *)
(* an hour and startOf("hour") is not the identity.  A JavaScript number   *)
(* is <<n>> for the finite number n and <<>> for NaN, so that parseFloat   *)
(* and the truthiness test of addCost keep their meaning.                  *)
(***************************************************************************)
EXTENDS Integers, Sequences, FiniteSets, TLC

\* ------------------------------------------------------------------ bounds

\* Slots per hour of the time grid.
SlotsPerHour == 2

\* COST_EXPLORER_CONFIG.MAX_ACCOUNTS_IN_FILTER is 199 in the source; the model
\* scales it down so that a call over the accounts of Accounts spans several
\* batches.  The code reads it only as the step and width of batch's slices.
MAX_ACCOUNTS_IN_FILTER == 2

\* ------------------------------------------------------- program constants

MAX_DAYS_FOR_HOURLY == 14

\* Hours in a (UTC) day, as in 24 * MAX_DAYS_FOR_HOURLY.
HOURS_PER_DAY == 24

\* The threshold of _getCostForLeasesHourly: end.diff(start, "hours").hours < 24.
HOURLY_SPLIT_HOURS == 24

Hour == SlotsPerHour
Day == HOURS_PER_DAY * Hour

\* ------------------------------------------------------------ JS numbers

NaN == <<>>
Num(n) == <<n>>
IsNaN(x) == x = <<>>
Plus(x, y) == IF IsNaN(x) \/ IsNaN(y) THEN NaN ELSE <<x[1] + y[1]>>
\* JavaScript truthiness of a number: false for 0 and for NaN.
Truthy(x) == ~IsNaN(x) /\ x[1] # 0

\* ------------------------------------------------------------- sequences

Range(s) == {s[i] : i \in DOMAIN s}

\* The account ids of the model, in a fixed order.
AccountIds == <<"111", "222", "333", "444", "555">>

Rank(a) == CHOOSE i \in DOMAIN AccountIds : AccountIds[i] = a

RECURSIVE SeqOfInts(_)
\* A set of integers as an ascending sequence.
SeqOfInts(S) ==
  IF S = {} THEN <<>>
  ELSE LET m == CHOOSE x \in S : \A y \in S : x <= y
       IN  <<m>> \o SeqOfInts(S \ {m})

RECURSIVE SeqOfSet(_)
\* A set of account ids as a sequence in ascending order of Rank.
SeqOfSet(S) ==
  IF S = {} THEN <<>>
  ELSE LET a == CHOOSE x \in S : \A y \in S : Rank(x) <= Rank(y)
       IN  <<a>> \o SeqOfSet(S \ {a})

\* --------------------------------------------------- AccountsCostReport

\* costMap of a fresh report: no key.
EmptyReport == <<>>

\* obj[key] = value on a map: (key :> value) @@ obj, where @@ keeps the left
\* operand's value of a key both have.
\* A bug addCost could have: the amount replaces the entry.
addCost_NoAccumulate(costMap, accountId, toAdd) == (accountId :> toAdd) @@ costMap

\* addCost: costMap[accountId] is undefined (falsy) when the key is absent.
addCost(costMap, accountId, toAdd) ==
  IF accountId \in DOMAIN costMap /\ Truthy(costMap[accountId])
  THEN (accountId :> Plus(costMap[accountId], toAdd)) @@ costMap
  ELSE (accountId :> toAdd) @@ costMap

getCost(costMap, accountId) ==
  IF accountId \in DOMAIN costMap THEN costMap[accountId] ELSE Num(0)

RECURSIVE AddEntries(_, _, _)
\* The loop of merge over Object.entries(other), keys is their order.
AddEntries(costMap, other, keys) ==
  IF keys = <<>> THEN costMap
  ELSE AddEntries(addCost(costMap, Head(keys), other[Head(keys)]), other, Tail(keys))

\* A bug merge could have: entries of other overwrite those of this.
merge_Overwrite(costMap, other, keys) == other @@ costMap

\* merge(accountsCost); keys is Object.entries' order of accountsCost.costMap.
merge(costMap, other, keys) == AddEntries(costMap, other, keys)

RECURSIVE SumEntries(_, _, _)
SumEntries(costMap, keys, acc) ==
  IF keys = <<>> THEN acc
  ELSE SumEntries(costMap, Tail(keys), Plus(acc, costMap[Head(keys)]))

totalCost(costMap) == SumEntries(costMap, SeqOfSet(DOMAIN costMap), Num(0))

\* ------------------------------------------------------------------ batch

\* array.slice(i, j) for 0 <= i <= j, i counted from 0.
Slice(array, i, j) ==
  LET hi == IF j < Len(array) THEN j ELSE Len(array)
  IN  IF i >= hi THEN <<>> ELSE SubSeq(array, i + 1, hi)

RECURSIVE BatchFrom(_, _, _)
\* The generator's loop from index i on: the chunks it yields, in order.
BatchFrom(array, size, i) ==
  IF i < Len(array)
  THEN <<Slice(array, i, i + size)>> \o BatchFrom(array, size, i + size)
  ELSE <<>>

batch_LongSlice(array, size) ==
  [c \in DOMAIN BatchFrom(array, size, 0) |->
     Slice(array, (c - 1) * size, (c - 1) * size + size + 1)]

batch_ShortSlice(array, size) ==
  [c \in DOMAIN BatchFrom(array, size, 0) |->
     Slice(array, (c - 1) * size, (c - 1) * size + size - 1)]

\* batch(array, size), materialised (Array.from / for-of consume all of it).
batch(array, size) == BatchFrom(array, size, 0)

\* --------------------------------------------------------- luxon DateTime

\* A DateTime is <<t>> (valid, t slots after the epoch) or <<>> (invalid).
Invalid == <<>>
DT(t) == <<t>>

UnitSlots(unit) == IF unit = "hour" THEN Hour ELSE Day

\* dt.startOf(unit), in UTC.
startOf(t, unit) == (t \div UnitSlots(unit)) * UnitSlots(unit)

\* a <= b on DateTimes: valueOf() of an invalid DateTime is NaN, and every
\* comparison with NaN is false.
DateTimeLeq_Strict(a, b) == a # Invalid /\ b # Invalid /\ a[1] < b[1]

DateTimeLeq(a, b) == a # Invalid /\ b # Invalid /\ a[1] <= b[1]

\* The unit a Granularity truncates to.
UnitOf(granularity) == IF granularity = "HOURLY" THEN "hour" ELSE "day"

\* toCostExplorerFormat: a formatted timestamp is a record of the fields its
\* pattern prints; the DAILY pattern drops the time of day.  The HOURLY
\* pattern prints every field down to the second (the grid is coarser).
toCostExplorerFormat(t, granularity) ==
  IF granularity = "HOURLY"
  THEN [pattern |-> "yyyy-MM-dd'T'HH:mm:ss'Z'", day |-> t \div Day, tod |-> t % Day]
  ELSE [pattern |-> "yyyy-MM-dd", day |-> t \div Day]

\* DateTime.fromFormat(str, fmt, {zone: "utc"}): invalid when str does not
\* match fmt.
fromFormat(str, fmt) ==
  IF str.pattern # fmt THEN Invalid
  ELSE IF fmt = "yyyy-MM-dd" THEN DT(str.day * Day)
  ELSE DT(str.day * Day + str.tod)

toStartOfNextPeriod_NoPlus(t, granularity) == startOf(t, UnitOf(granularity))

\* toStartOfNextPeriod for HOURLY and DAILY.
toStartOfNextPeriod(t, granularity) ==
  startOf(t + UnitSlots(UnitOf(granularity)), UnitOf(granularity))

\* getGetCostAndUsageCommandInput: the request of one query.  tag is "none"
\* or the tag of the And filter.
getGetCostAndUsageCommandInput(start, end, accounts, granularity, tag) ==
  [Start |-> toCostExplorerFormat(start, granularity),
   End |-> toCostExplorerFormat(end, granularity),
   Granularity |-> granularity,
   Accounts |-> accounts,
   Tag |-> tag]

\* ------------------------------------------------- the Cost Query Service
\* What costExplorerClient.send answers.  The billing data is a ledger: the
\* accounts of usage accrue Rate(a) per hour, at all times (also before a
\* lease began), and the other accounts nothing.  A query that is answered
\* with data gets one bucket per period of its granularity that overlaps
\* [Start, End), each with one group per account of the filter that has
\* usage.

Rate(a) == Rank(a)

\* The instant a formatted timestamp denotes.
TimeOf(str) ==
  IF str.pattern = "yyyy-MM-dd" THEN str.day * Day ELSE str.day * Day + str.tod

\* How the service prints a bucket's start.
PeriodStartString(b, granularity) ==
  IF granularity = "HOURLY"
  THEN [pattern |-> "yyyy-MM-dd'T'HH:mm:ss'Z'", day |-> b \div Day, tod |-> b % Day]
  ELSE [pattern |-> "yyyy-MM-dd", day |-> b \div Day]

\* The starts of the buckets of a query, ascending.
BucketStarts(q) ==
  LET U == UnitSlots(UnitOf(q.Granularity))
      s == (TimeOf(q.Start) \div U) * U
      e == TimeOf(q.End)
      n == IF e > s THEN (e - s + U - 1) \div U ELSE 0
  IN  [i \in 1..n |-> s + (i - 1) * U]

\* The amount of one group, a decimal string: [num |-> n] prints n.
AmountString(a, granularity) ==
  [num |-> IF granularity = "HOURLY" THEN Rate(a) ELSE HOURS_PER_DAY * Rate(a)]

GroupsOf(q, used) ==
  LET accts == SelectSeq(q.Accounts, LAMBDA a : a \in used)
  IN  [i \in DOMAIN accts |->
         [Keys |-> <<accts[i]>>, Amount |-> AmountString(accts[i], q.Granularity)]]

\* ResultsByTime of a query answered with data.
ResultsByTime(q, used) ==
  LET starts == BucketStarts(q)
  IN  [i \in DOMAIN starts |->
         [TimePeriod |-> [Start |-> PeriodStartString(starts[i], q.Granularity)],
          Groups |-> GroupsOf(q, used)]]

\* How a query can end: the send rejects; the response has no ResultsByTime;
\* it has a ResultsByTime entry that cannot be read (reducing it throws a
\* TypeError); it has data.  An empty time range has no data to return.
Outcomes(q) ==
  IF BucketStarts(q) = <<>>
  THEN {"rejected", "empty"}
  ELSE {"rejected", "empty", "malformed", "data"}

\* ----------------------------------------------------- reducing a response

\* parseFloat(group.Metrics?.UnblendedCost?.Amount ?? "0")
parseAmount(group) ==
  LET str == IF "Amount" \in DOMAIN group THEN group.Amount ELSE [num |-> 0]
  IN  IF "num" \in DOMAIN str THEN Num(str.num) ELSE NaN

\* The test of accumulateCostForResult on one group.
IncludesGroup_NoTruncation(accountId, accountsWithStartDates, startOfUnit, periodStart) ==
  DateTimeLeq(DT(accountsWithStartDates[accountId]), periodStart)

IncludesGroup_NoFilter(accountId, accountsWithStartDates, startOfUnit, periodStart) ==
  accountId \in DOMAIN accountsWithStartDates

IncludesGroup(accountId, accountsWithStartDates, startOfUnit, periodStart) ==
  DateTimeLeq(DT(startOf(accountsWithStartDates[accountId], startOfUnit)), periodStart)

RECURSIVE AccumulateGroups(_, _, _, _, _)
\* The loop over result.Groups.
AccumulateGroups(groups, periodStart, accountsWithStartDates, startOfUnit, accountsCost) ==
  IF groups = <<>> THEN accountsCost
  ELSE LET group == Head(groups)
           hasId == "Keys" \in DOMAIN group /\ group.Keys # <<>>
           next == IF hasId /\ IncludesGroup(group.Keys[1], accountsWithStartDates,
                                             startOfUnit, periodStart)
                   THEN addCost(accountsCost, group.Keys[1], parseAmount(group))
                   ELSE accountsCost
       IN  AccumulateGroups(Tail(groups), periodStart, accountsWithStartDates,
                            startOfUnit, next)

accumulateCostForResult(result, dateFormat, accountsWithStartDates, startOfUnit, accountsCost) ==
  IF "Groups" \in DOMAIN result /\ "TimePeriod" \in DOMAIN result
  THEN AccumulateGroups(result.Groups, fromFormat(result.TimePeriod.Start, dateFormat),
                        accountsWithStartDates, startOfUnit, accountsCost)
  ELSE accountsCost

RECURSIVE ReduceResults(_, _, _, _, _, _)
\* for (const result of resultByTime) from entry i on.  The report after
\* entry i is bound as a value (v) before the loop goes on.
ReduceResults(resultByTime, i, dateFormat, accountsWithStartDates, startOfUnit, accountsCost) ==
  IF i > Len(resultByTime) THEN accountsCost
  ELSE CHOOSE r \in
         {ReduceResults(resultByTime, i + 1, dateFormat, accountsWithStartDates,
                        startOfUnit, v) :
            v \in {accumulateCostForResult(resultByTime[i], dateFormat,
                                           accountsWithStartDates, startOfUnit,
                                           accountsCost)}} : TRUE

calculateTotalCostForLeases(resultByTime, accountsWithStartDates, granularity) ==
  ReduceResults(resultByTime, 1,
                IF granularity = "HOURLY" THEN "yyyy-MM-dd'T'HH:mm:ss'Z'" ELSE "yyyy-MM-dd",
                accountsWithStartDates,
                IF granularity = "HOURLY" THEN "hour" ELSE "day",
                EmptyReport)

\* A bug the range reduction could have: no account is held to its lease start.
calculateTotalCostForRange_NoFilter(resultByTime, accountsWithStartDates) ==
  ReduceResults(resultByTime, 1, "yyyy-MM-dd",
                [a \in DOMAIN accountsWithStartDates |-> 0], "day", EmptyReport)

\* calculateTotalCostForRange / accumulateCostForRange: the same reduction,
\* always with the daily pattern and startOf("day").
calculateTotalCostForRange(resultByTime, accountsWithStartDates) ==
  ReduceResults(resultByTime, 1, "yyyy-MM-dd", accountsWithStartDates, "day", EmptyReport)

\* ------------------------------------------------------------------ state

VARIABLES
  op,            \* the operation called: "none" before a call
  args,          \* its arguments, the ledger (used) and the time of the call (now)
  plan,          \* the queries the call makes, in the order the code reaches them
  pc,            \* "idle", "awaiting" (suspended at an await), "resolved", "rejected"
  inflight,      \* indices (in plan) of the queries sent and not yet answered
  issued,        \* indices of the queries sent so far, in the order of the send calls
  log,           \* index -> how the query ended and what its response reduced to
  accountsCost,  \* the running report (dailyCostsByAccount in getDailyCostsByAccount)
  held,          \* accountsCost of _getCostForLeasesHourly while its HOURLY query runs
  returned,      \* what the call returned or threw
  pin,           \* argument of the pure function under check
  pout,          \* its result
  parameter,     \* the SSM parameter of the last known version: <<>> absent, <<v>> its value
  notifications, \* the release notifications published to the SNS topic, in order
  github,        \* the latest release of the repository at GitHub: <<>> none, <<tag>>
  releases,      \* how many times the latest release at GitHub has changed
  checker        \* the release checker Lambda: its position and the locals of its run

vars == <<op, args, plan, pc, inflight, issued, log, accountsCost, held, returned, pin, pout,
          parameter, notifications, github, releases, checker>>

releaseVars == <<parameter, notifications, github, releases, checker>>

callVars == <<op, args, plan, pc, inflight, issued, log, accountsCost, held, returned>>

\* ----------------------------------------------------------------- inputs

T(d, h, s) == d * Day + h * Hour + s

\* Lease starts: inside an hour of day 0, at the midnight that begins day 1,
\* inside an hour of day 1.  Every one is at or before every end timestamp.
StartTimes == {T(0, 10, 1), T(1, 0, 0), T(1, 13, 1)}

\* End timestamps: on a day boundary (24 hours or less after two of the
\* lease starts), and inside an hour.
EndTimes == {T(2, 0, 0), T(2, 9, 1)}

\* The call is made at its end timestamp, or NowLag later.
NowLags == {0, 15 * Day}

LeaseAccounts == {"111", "222", "333"}

Granularities == {"DAILY", "HOURLY"}

\* accountsWithStartDates: every map from some of the accounts to lease starts.
LeaseWindows == UNION {[S -> StartTimes] : S \in SUBSET LeaseAccounts}

\* Object.entries of a map whose keys were inserted in the order of AccountIds.
Entries(accountsWithStartDates) ==
  LET keys == SeqOfSet(DOMAIN accountsWithStartDates)
  IN  [i \in DOMAIN keys |-> [id |-> keys[i], start |-> accountsWithStartDates[keys[i]]]]

\* Object.fromEntries(currBatch) and Object.keys of it.
FromEntries(entries) ==
  [a \in {entries[i].id : i \in DOMAIN entries} |->
     (CHOOSE e \in Range(entries) : e.id = a).start]

Keys(entries) == [i \in DOMAIN entries |-> entries[i].id]

\* ------------------------------------------------------------ the queries

\* One call of getCostByGranularityForLeases: whether its guard throws, and
\* the request it sends otherwise.
GuardThrows_Never(start, end, granularity) == FALSE

GuardThrows(start, end, granularity) ==
  granularity = "HOURLY" /\ end - start >= HOURS_PER_DAY * MAX_DAYS_FOR_HOURLY * Hour

getCostByGranularityForLeases(start, end, entries, granularity, part, b) ==
  [throws |-> GuardThrows(start, end, granularity),
   input |-> getGetCostAndUsageCommandInput(start, end, Keys(entries), granularity, "none"),
   accts |-> FromEntries(entries),
   part |-> part,
   batch |-> b]

\* _getCostForLeasesHourly: the queries of one batch.
HourlyQueries(entries, start, end, b) ==
  IF end - start < HOURLY_SPLIT_HOURS * Hour
  THEN <<getCostByGranularityForLeases(start, toStartOfNextPeriod(end, "HOURLY"),
                                       entries, "HOURLY", "only", b)>>
  ELSE <<getCostByGranularityForLeases(start, startOf(end, "day"),
                                       entries, "DAILY", "daily", b),
         getCostByGranularityForLeases(startOf(end, "day"), end,
                                       entries, "HOURLY", "hourly", b)>>

\* _getCostForLeasesDaily: the query of one batch.
DailyQueries(entries, start, end, b) ==
  <<getCostByGranularityForLeases(start, toStartOfNextPeriod(end, "DAILY"),
                                  entries, "DAILY", "only", b)>>

\* A bug getCostForLeases could have: the entries are batched unsorted.
Sortings_Unsorted(entries) ==
  {s \in [DOMAIN entries -> Range(entries)] : Range(s) = Range(entries)}

\* The results Array.prototype.sort can give with the comparator
\* (a, b) => a[1] > b[1] ? 1 : -1: ascending by start, ties in any order.
Sortings(entries) ==
  {s \in [DOMAIN entries -> Range(entries)] :
     /\ Range(s) = Range(entries)
     /\ \A i \in DOMAIN s : i > 1 => s[i - 1].start <= s[i].start}

RECURSIVE LeasePlan(_, _, _, _)
\* The loop of getCostForLeases over the batches from batch b on.
LeasePlan(batches, end, granularity, b) ==
  IF b > Len(batches) THEN <<>>
  ELSE LET currBatch == batches[b]
           earliestStart == currBatch[1].start
       IN  (IF granularity = "HOURLY"
            THEN HourlyQueries(currBatch, earliestStart, end, b)
            ELSE DailyQueries(currBatch, earliestStart, end, b))
           \o LeasePlan(batches, end, granularity, b + 1)

\* The loop of getCostForRange: one DAILY query per batch over [start, end).
RangePlan(batches, start, end, tag) ==
  [b \in DOMAIN batches |->
     [throws |-> FALSE,
      input |-> getGetCostAndUsageCommandInput(start, end, Keys(batches[b]), "DAILY", tag),
      accts |-> FromEntries(batches[b]),
      part |-> "range",
      batch |-> b]]

\* ------------------------------------------------ getDailyCostsByAccount

\* The query of each batch of account ids.
DailyCostsPlan(batches, start, end) ==
  [b \in DOMAIN batches |->
     [throws |-> FALSE,
      input |-> getGetCostAndUsageCommandInput(start, end, batches[b], "DAILY", "none"),
      accts |-> <<>>,
      part |-> "batch",
      batch |-> b]]

\* dailyCostsByAccount[accountId][dateStr] = cost, creating the inner map.
SetDailyCost(daily, accountId, dateStr, cost) ==
  LET inner == IF accountId \in DOMAIN daily THEN daily[accountId] ELSE <<>>
  IN  (accountId :> ((dateStr :> cost) @@ inner)) @@ daily

RECURSIVE ProcessGroups(_, _, _)
\* processGroupData over the groups of one bucket.
ProcessGroups(groups, dateStr, daily) ==
  IF groups = <<>> THEN daily
  ELSE LET group == Head(groups)
           hasId == "Keys" \in DOMAIN group /\ group.Keys # <<>>
       IN  ProcessGroups(Tail(groups), dateStr,
                         IF hasId
                         THEN SetDailyCost(daily, group.Keys[1], dateStr, parseAmount(group))
                         ELSE daily)

processTimeResult(result, daily) ==
  IF "TimePeriod" \in DOMAIN result /\ "Groups" \in DOMAIN result
  THEN ProcessGroups(result.Groups, result.TimePeriod.Start, daily)
  ELSE daily

RECURSIVE ProcessResults(_, _)
ProcessResults(resultByTime, daily) ==
  IF resultByTime = <<>> THEN daily
  ELSE ProcessResults(Tail(resultByTime), processTimeResult(Head(resultByTime), daily))

processCostResponse(resultByTime) == ProcessResults(resultByTime, <<>>)

\* Object.assign(target, source) on two date -> cost maps.
ObjectAssign(target, source) == source @@ target

\* A bug the forEach could have: a batch's map of an account replaces the
\* account's map.
MergeBatchResult_Replace(daily, batchResult) == batchResult @@ daily

\* The body of results.forEach for one fulfilled result.
MergeBatchResult(daily, batchResult) ==
  [a \in DOMAIN batchResult |->
     ObjectAssign(IF a \in DOMAIN daily THEN daily[a] ELSE <<>>, batchResult[a])]
  @@ daily

RECURSIVE MergeSettled(_, _, _)
\* results.forEach from index i on: results is index -> settled promise.
MergeSettled(results, i, daily) ==
  IF i > Cardinality(DOMAIN results) THEN daily
  ELSE MergeSettled(results, i + 1,
                    IF results[i].status = "fulfilled"
                    THEN MergeBatchResult(daily, results[i].value)
                    ELSE daily)

\* A bug the await could have: Promise.all in place of Promise.allSettled.
AwaitAllSettled_FailFast(results) ==
  IF \E i \in DOMAIN results : results[i].status = "rejected"
  THEN [status |-> "rejected", value |-> <<>>, error |-> "rejected"]
  ELSE [status |-> "resolved", value |-> MergeSettled(results, 1, <<>>), error |-> "none"]

\* A bug the merge could have: results are merged in the order in which the
\* promises settled (seq), not in the order of the batches.
AwaitAllSettled_CompletionOrder(results) ==
  LET bySeq == [i \in DOMAIN results |->
                  results[CHOOSE b \in DOMAIN results : results[b].seq = i]]
  IN  [status |-> "resolved", value |-> MergeSettled(bySeq, 1, <<>>), error |-> "none"]

\* await Promise.allSettled(...) and the forEach after it: what the call returns.
AwaitAllSettled(results) ==
  [status |-> "resolved", value |-> MergeSettled(results, 1, <<>>), error |-> "none"]

\* How the promise of one throttled call settles.
SettleBatch(q, outcome, used) ==
  CASE outcome = "data" ->
         [status |-> "fulfilled", outcome |-> outcome,
          value |-> processCostResponse(ResultsByTime(q, used))]
    [] outcome = "empty" ->
         [status |-> "fulfilled", outcome |-> outcome, value |-> <<>>]
    [] OTHER ->
         [status |-> "rejected", outcome |-> outcome, value |-> <<>>]

\* ------------------------------------------------------------ the actions

Merge2(costMap, other) == merge(costMap, other, SeqOfSet(DOMAIN other))

\* What getCostByGranularityForLeases (or the loop body of getCostForRange)
\* makes of a response that did not throw.
SubReport(step, outcome, used) ==
  IF outcome # "data" THEN EmptyReport
  ELSE IF step.part = "range"
       THEN calculateTotalCostForRange(ResultsByTime(step.input, used), step.accts)
       ELSE calculateTotalCostForLeases(ResultsByTime(step.input, used), step.accts,
                                        step.input.Granularity)

\* A bug the loops could have: a failed query is caught and counted as no cost.
Disposition_Swallow(outcome) == "continue"

\* A bug the loops could have: a response without buckets counts as a failure.
Disposition_EmptyThrows(outcome) ==
  IF outcome = "data" THEN "continue" ELSE "throw"

\* Whether the awaited send, or the reduction after it, throws.
Disposition(outcome) ==
  IF outcome \in {"rejected", "malformed"} THEN "throw" ELSE "continue"

\* A bug the loops could have: every remaining query is sent without awaiting
\* the one before.
SendNow_NoAwait(p, k) == k..Len(p)

\* The queries sent when the call reaches query k of its plan: the code
\* awaits each send before it goes on.
SendNow(p, k) == {k}

\* What the caller has of the call: its promise is pending, resolved with a
\* value, or rejected with an error ("rejected": the error of the send;
\* "malformed": the TypeError of the reduction; "guard": the Error of
\* getCostByGranularityForLeases).
Pending == [status |-> "pending", value |-> <<>>, error |-> "none"]

Resolved(value) == [status |-> "resolved", value |-> value, error |-> "none"]

Rejected(error) == [status |-> "rejected", value |-> <<>>, error |-> error]

\* From the entry of a sequential operation to its first await (or its end).
Begin(o, a, p) ==
  /\ op' = o
  /\ args' = a
  /\ plan' = p
  /\ log' = <<>>
  /\ accountsCost' = EmptyReport
  /\ held' = EmptyReport
  /\ IF p = <<>>
     THEN /\ pc' = "resolved"
          /\ returned' = Resolved(EmptyReport)
          /\ inflight' = {}
          /\ issued' = <<>>
     ELSE IF p[1].throws
     THEN /\ pc' = "rejected"
          /\ returned' = Rejected("guard")
          /\ inflight' = {}
          /\ issued' = <<>>
     ELSE /\ pc' = "awaiting"
          /\ returned' = Pending
          /\ inflight' = SendNow(p, 1)
          /\ issued' = SeqOfInts(SendNow(p, 1))
  /\ UNCHANGED <<pin, pout, releaseVars>>

CallGetCostForLeases ==
  /\ pc = "idle"
  /\ \E accts \in LeaseWindows, end \in EndTimes, granularity \in Granularities, lag \in NowLags :
       \E sorted \in Sortings(Entries(accts)), used \in SUBSET DOMAIN accts :
          Begin("getCostForLeases",
                [accts |-> accts, start |-> 0, end |-> end, granularity |-> granularity,
                 tag |-> "none", ids |-> <<>>, used |-> used, now |-> end + lag],
                LeasePlan(batch(sorted, MAX_ACCOUNTS_IN_FILTER), end, granularity, 1))

\* The awaited query of a sequential operation is answered; the code runs on
\* to its next await, its return or its throw.
SequentialRespond ==
  /\ pc = "awaiting"
  /\ op \in {"getCostForLeases", "getCostForRange", "getCostByGranularityForLeases"}
  /\ LET k == Cardinality(DOMAIN log) + 1
         step == plan[k]
     IN  /\ k \in inflight
         /\ \E outcome \in Outcomes(step.input) :
              LET sub == SubReport(step, outcome, args.used)
                  cost == CASE step.part = "daily" -> accountsCost
                            [] step.part = "hourly" -> Merge2(accountsCost, Merge2(held, sub))
                            [] step.part = "direct" -> sub
                            [] OTHER -> Merge2(accountsCost, sub)
              IN  /\ log' = [j \in DOMAIN log \cup {k} |->
                               IF j = k THEN [outcome |-> outcome, sub |-> sub] ELSE log[j]]
                  /\ IF Disposition(outcome) = "throw"
                     THEN /\ pc' = "rejected"
                          /\ returned' = Rejected(outcome)
                          /\ inflight' = inflight \ {k}
                          /\ UNCHANGED <<issued, accountsCost, held>>
                     ELSE /\ accountsCost' = cost
                          /\ held' = IF step.part = "daily" THEN sub ELSE held
                          /\ IF k = Len(plan)
                             THEN /\ pc' = "resolved"
                                  /\ returned' = Resolved(cost)
                                  /\ inflight' = inflight \ {k}
                                  /\ UNCHANGED issued
                             ELSE IF plan[k + 1].throws
                             THEN /\ pc' = "rejected"
                                  /\ returned' = Rejected("guard")
                                  /\ inflight' = inflight \ {k}
                                  /\ UNCHANGED issued
                             ELSE /\ pc' = "awaiting"
                                  /\ returned' = Pending
                                  /\ inflight' = (inflight \ {k}) \cup SendNow(plan, k + 1)
                                  /\ issued' = issued \o SeqOfInts(SendNow(plan, k + 1) \ Range(issued))
  /\ UNCHANGED <<op, args, plan, pin, pout, releaseVars>>

\* [start, end) of getCostForRange and getDailyCostsByAccount.
Ranges == {<<T(0, 10, 1), T(2, 0, 0)>>, <<T(1, 0, 0), T(2, 9, 1)>>}

Tags == {"none", "CostCategory"}

CallGetCostForRange ==
  /\ pc = "idle"
  /\ \E accts \in LeaseWindows, range \in Ranges, tag \in Tags, lag \in NowLags :
       \E used \in SUBSET DOMAIN accts :
          Begin("getCostForRange",
                [accts |-> accts, start |-> range[1], end |-> range[2],
                 granularity |-> "DAILY", tag |-> tag, ids |-> <<>>, used |-> used,
                 now |-> range[2] + lag],
                RangePlan(batch(Entries(accts), MAX_ACCOUNTS_IN_FILTER),
                          range[1], range[2], tag))

\* Arguments of a direct call of getCostByGranularityForLeases: spans below
\* and above 24 * MAX_DAYS_FOR_HOURLY hours.
DirectAccounts == {"111", "222"}

DirectWindows == UNION {[S -> StartTimes] : S \in (SUBSET DirectAccounts) \ {{}}}

DirectSpans ==
  {<<T(0, 0, 0), T(1, 13, 1)>>, <<T(0, 10, 1), T(1, 13, 1)>>,
   <<T(0, 0, 0), T(MAX_DAYS_FOR_HOURLY, 0, 0)>>,
   <<T(0, 10, 1), T(MAX_DAYS_FOR_HOURLY, 13, 1)>>}

CallGetCostByGranularityForLeases ==
  /\ pc = "idle"
  /\ \E accts \in DirectWindows, span \in DirectSpans, granularity \in Granularities,
        lag \in NowLags :
       \E used \in SUBSET DOMAIN accts :
          Begin("getCostByGranularityForLeases",
                [accts |-> accts, start |-> span[1], end |-> span[2],
                 granularity |-> granularity, tag |-> "none", ids |-> <<>>,
                 used |-> used, now |-> span[2] + lag],
                <<getCostByGranularityForLeases(span[1], span[2], Entries(accts),
                                                granularity, "direct", 1)>>)

\* accountIds of getDailyCostsByAccount: the first n ids, for every n.
IdLists == {SubSeq(AccountIds, 1, n) : n \in 0..Len(AccountIds)}

\* getDailyCostsByAccount up to its await: the throttled calls are made, and
\* none has been let through yet.
CallGetDailyCostsByAccount ==
  /\ pc = "idle"
  /\ \E ids \in IdLists, range \in Ranges :
       \E used \in SUBSET Range(ids) :
          LET p == DailyCostsPlan(batch(ids, MAX_ACCOUNTS_IN_FILTER), range[1], range[2])
              none == AwaitAllSettled(<<>>)
          IN  /\ op' = "getDailyCostsByAccount"
              /\ args' = [accts |-> <<>>, start |-> range[1], end |-> range[2],
                          granularity |-> "DAILY", tag |-> "none", ids |-> ids,
                          used |-> used, now |-> range[2]]
              /\ plan' = p
              /\ pc' = IF p = <<>> THEN none.status ELSE "awaiting"
              /\ returned' = IF p = <<>> THEN none ELSE Pending
              /\ accountsCost' = IF p = <<>> THEN none.value ELSE <<>>
              /\ inflight' = {}
              /\ issued' = <<>>
              /\ log' = <<>>
              /\ held' = EmptyReport
  /\ UNCHANGED <<pin, pout, releaseVars>>

\* A bug getDailyCostsByAccount could have: a failed batch is sent again.
ThrottledStart_Requery ==
  /\ pc = "awaiting"
  /\ op = "getDailyCostsByAccount"
  /\ \E b \in DOMAIN plan \ inflight :
       /\ b \in Range(issued) => (b \in DOMAIN log /\ log[b].status = "rejected")
       /\ inflight' = inflight \cup {b}
       /\ issued' = Append(issued, b)
  /\ UNCHANGED <<op, args, plan, pc, log, accountsCost, held, returned, pin, pout, releaseVars>>

\* The throttle lets one of the waiting calls through: its query is sent.
ThrottledStart ==
  /\ pc = "awaiting"
  /\ op = "getDailyCostsByAccount"
  /\ \E b \in DOMAIN plan \ Range(issued) :
       /\ inflight' = inflight \cup {b}
       /\ issued' = Append(issued, b)
  /\ UNCHANGED <<op, args, plan, pc, log, accountsCost, held, returned, pin, pout, releaseVars>>

\* One of the queries in flight is answered and its promise settles; when it
\* is the last one, Promise.allSettled resolves and the call returns.
ThrottledRespond ==
  /\ pc = "awaiting"
  /\ op = "getDailyCostsByAccount"
  /\ \E b \in inflight :
       \E outcome \in Outcomes(plan[b].input) :
          LET results == [j \in DOMAIN log \cup {b} |->
                            IF j = b THEN SettleBatch(plan[b].input, outcome, args.used)
                            ELSE log[j]]
              done == DOMAIN results = DOMAIN plan
              out == AwaitAllSettled(results)
          IN  /\ log' = results
              /\ inflight' = inflight \ {b}
              /\ pc' = IF done THEN out.status ELSE "awaiting"
              /\ returned' = IF done THEN out ELSE Pending
              /\ accountsCost' = IF done THEN out.value ELSE accountsCost
  /\ UNCHANGED <<op, args, plan, issued, held, pin, pout, releaseVars>>

\* ------------------------------------------------- release notifier, deployed

\* null: no release at GitHub, no value in the parameter store
Null == <<>>

\* stringValue of LastKnownVersionParameter in the stack
PlaceholderValue == "initial"

ReleaseTags == {"v1.0.0", "v1.1.0"}

\* The Lambda between invocations. runs, stores, first, read, published, wrote,
\* at (the call that threw) and change (which latest release the run fetched)
\* record what the run did; the others are the locals of checkForNewRelease.
IdleChecker ==
  [pc |-> "idle", runs |-> 0, stores |-> 0, first |-> TRUE,
   latestRelease |-> Null, lastKnownVersion |-> Null, read |-> FALSE,
   published |-> 0, wrote |-> Null, result |-> "none", at |-> "none", change |-> 0]

\* The state the stack is deployed in: the parameter exists and holds the
\* placeholder, nothing has been published, the function has not run.
Deployed ==
  /\ parameter = <<PlaceholderValue>>
  /\ notifications = <<>>
  /\ releases = 0
  /\ checker = IdleChecker

\* The release checker is deployed and never invoked.
NoRun ==
  /\ Deployed
  /\ github = Null

\* No call has been made.
NoCall ==
  /\ op = "none"
  /\ args = <<>>
  /\ plan = <<>>
  /\ pc = "idle"
  /\ inflight = {}
  /\ issued = <<>>
  /\ log = <<>>
  /\ accountsCost = EmptyReport
  /\ held = EmptyReport
  /\ returned = Pending

NotApplied == [done |-> FALSE]

Init ==
  /\ NoCall
  /\ NoRun
  /\ pin = <<>>
  /\ pout = NotApplied

Next ==
  \/ CallGetCostForLeases
  \/ CallGetCostForRange
  \/ CallGetCostByGranularityForLeases
  \/ CallGetDailyCostsByAccount
  \/ ThrottledStart
  \/ ThrottledRespond
  \/ SequentialRespond

Spec == Init /\ [][Next]_vars

\* ------------------------------------------------------- batch, on its own

\* Longest array and largest size batch is applied to.
MaxLen == 4
MaxSize == 3

Items == {"x", "y"}

Arrays == UNION {[1..n -> Items] : n \in 0..MaxLen}

InitBatch ==
  /\ NoCall
  /\ NoRun
  /\ pin \in {[array |-> a, size |-> k] : a \in Arrays, k \in 1..MaxSize}
  /\ pout = NotApplied

ApplyBatch ==
  /\ ~pout.done
  /\ pout' = [done |-> TRUE, chunks |-> batch(pin.array, pin.size)]
  /\ UNCHANGED <<pin, callVars, releaseVars>>

SpecBatch == InitBatch /\ [][ApplyBatch]_vars

\* -------------------------------------------- AccountsCostReport.merge, on its own

\* Amounts of the reports merged: finite numbers, with 0, a negative amount
\* and amounts that cancel.
MergeAmounts == {-2, 0, 2, 3}

MergeAccounts == {"111", "222"}

Reports == UNION {[S -> {Num(n) : n \in MergeAmounts}] : S \in SUBSET MergeAccounts}

InitMerge ==
  /\ NoCall
  /\ NoRun
  /\ pin \in {[a |-> a, b |-> b, c |-> c] : a \in Reports, b \in Reports, c \in Reports}
  /\ pout = NotApplied

\* a.merge(b), b.merge(a) and the two groupings of the three reports, each
\* on fresh copies.
ApplyMerge ==
  /\ ~pout.done
  /\ pout' = [done |-> TRUE,
              ab |-> Merge2(pin.a, pin.b),
              ba |-> Merge2(pin.b, pin.a),
              ab_c |-> Merge2(Merge2(pin.a, pin.b), pin.c),
              a_bc |-> Merge2(pin.a, Merge2(pin.b, pin.c)),
              cb_a |-> Merge2(Merge2(pin.c, pin.b), pin.a)]
  /\ UNCHANGED <<pin, callVars, releaseVars>>

SpecMerge == InitMerge /\ [][ApplyMerge]_vars

\* ================================================================ claims

SequentialOps == {"getCostForLeases", "getCostForRange", "getCostByGranularityForLeases"}

\* The buckets the query of index k was answered with.
ResponseOf(k) == ResultsByTime(plan[k].input, args.used)

BucketTime(R, i) == TimeOf(R[i].TimePeriod.Start)

\* t truncated to the unit of a granularity, on the integer time line.
AlignedTo(t, granularity) ==
  IF granularity = "HOURLY" THEN (t \div Hour) * Hour ELSE (t \div Day) * Day

\* The (bucket, group) positions of R that hold account a in a bucket that
\* starts at or after the instant from.
GroupsFrom(R, a, from) ==
  {p \in UNION {{<<i, j>> : j \in DOMAIN R[i].Groups} : i \in DOMAIN R} :
     R[p[1]].Groups[p[2]].Keys[1] = a /\ from <= BucketTime(R, p[1])}

RECURSIVE SumGroups(_, _)
\* The sum of the amounts at the positions P of R.
SumGroups(R, P) ==
  IF P = {} THEN 0
  ELSE LET p == CHOOSE x \in P : TRUE
       IN  R[p[1]].Groups[p[2]].Amount.num + SumGroups(R, P \ {p})

\* What bucket i of the response to query k adds to a fresh report.
BucketContribution(k, i) ==
  accumulateCostForResult(ResponseOf(k)[i],
                          IF plan[k].input.Granularity = "HOURLY"
                          THEN "yyyy-MM-dd'T'HH:mm:ss'Z'" ELSE "yyyy-MM-dd",
                          plan[k].accts, UnitOf(plan[k].input.Granularity), EmptyReport)

DataQueries(ops) ==
  IF op \in ops THEN {k \in DOMAIN log : log[k].outcome = "data"} ELSE {}

\* C1: in every query of getCostForLeases / getCostByGranularityForLeases
\* that was answered with buckets, a group's amount is added to its account
\* exactly when the account's lease start, truncated to the query's
\* granularity unit, is at or before the bucket's start: each bucket adds the
\* amounts of exactly those groups, and the report of the query holds, per
\* account, the sum of exactly those amounts (no key when there are none).
C1_LeaseBoundaryFilter ==
  \A k \in DataQueries({"getCostForLeases", "getCostByGranularityForLeases"}) :
    LET R == ResponseOf(k)
        g == plan[k].input.Granularity
        accts == plan[k].accts
    IN  /\ \A i \in DOMAIN R : \A j \in DOMAIN R[i].Groups :
             LET a == R[i].Groups[j].Keys[1]
                 c == BucketContribution(k, i)
             IN  IF AlignedTo(accts[a], g) <= BucketTime(R, i)
                 THEN a \in DOMAIN c /\ c[a] = Num(R[i].Groups[j].Amount.num)
                 ELSE a \notin DOMAIN c
        /\ \A a \in DOMAIN accts :
             LET P == GroupsFrom(R, a, AlignedTo(accts[a], g))
             IN  IF P = {} THEN a \notin DOMAIN log[k].sub
                 ELSE a \in DOMAIN log[k].sub /\ log[k].sub[a] = Num(SumGroups(R, P))

\* C1 witness: a DAILY query answered with a bucket of day 0 and a bucket of
\* day 1, for an account whose lease began at the midnight that begins day 1:
\* its total is the amount of the day-1 bucket alone.
C1_Witness ==
  \E k \in DataQueries({"getCostForLeases"}) :
    \E a \in DOMAIN plan[k].accts :
      LET R == ResponseOf(k)
      IN  /\ plan[k].input.Granularity = "DAILY"
          /\ plan[k].accts[a] = T(1, 0, 0)
          /\ a \in args.used
          /\ {BucketTime(R, i) : i \in DOMAIN R} = {T(0, 0, 0), T(1, 0, 0)}
          /\ log[k].sub[a] = Num(HOURS_PER_DAY * Rate(a))

\* C2 as stated: a bucket that starts strictly before an account's lease
\* start adds nothing for that account.
C2_NoBucketBeforeLeaseStart ==
  \A k \in DataQueries({"getCostForLeases"}) :
    LET R == ResponseOf(k)
    IN  \A i \in DOMAIN R : \A a \in DOMAIN plan[k].accts :
          BucketTime(R, i) < plan[k].accts[a] => a \notin DOMAIN BucketContribution(k, i)

\* C2 as amended: a bucket that starts strictly before the account's lease
\* start truncated to the query's granularity unit adds nothing for that
\* account, and the account's total in the query's report is no more than
\* the amounts of its groups in the other buckets.
C2_NoBucketBeforeAlignedLeaseStart ==
  \A k \in DataQueries({"getCostForLeases"}) :
    LET R == ResponseOf(k)
        g == plan[k].input.Granularity
    IN  \A a \in DOMAIN plan[k].accts :
          LET from == AlignedTo(plan[k].accts[a], g)
          IN  /\ \A i \in DOMAIN R :
                   BucketTime(R, i) < from => a \notin DOMAIN BucketContribution(k, i)
              /\ getCost(log[k].sub, a)[1] <= SumGroups(R, GroupsFrom(R, a, from))

\* C2 witness: an account with usage shares its batch with an earlier lease,
\* so that the response holds a group of it in a bucket before its own
\* (truncated) lease start, and a later bucket gives it a total.
C2_Witness ==
  \E k \in DataQueries({"getCostForLeases"}) :
    \E a \in DOMAIN plan[k].accts \cap args.used :
      LET R == ResponseOf(k)
      IN  /\ \E i \in DOMAIN R :
               BucketTime(R, i) < AlignedTo(plan[k].accts[a], plan[k].input.Granularity)
          /\ a \in DOMAIN log[k].sub
          /\ Cardinality(DOMAIN plan[k].accts) > 1

\* The least lease start among the accounts of query k's batch.
EarliestStartOf(k) ==
  CHOOSE t \in Range(plan[k].accts) : \A u \in Range(plan[k].accts) : t <= u

HourlyStamp(t) ==
  [pattern |-> "yyyy-MM-dd'T'HH:mm:ss'Z'", day |-> t \div Day, tod |-> t % Day]

DailyStamp(t) == [pattern |-> "yyyy-MM-dd", day |-> t \div Day]

\* C3 as stated: in an HOURLY getCostForLeases, the queries of a batch with
\* end - earliestStart >= 24 hours are, in this order, one DAILY query over
\* [earliestStart, startOfDay(end)) and one HOURLY query over
\* [startOfDay(end), start of the hour after end).
C3_HourlySplitQueries ==
  (op = "getCostForLeases" /\ args.granularity = "HOURLY") =>
    \A j \in DOMAIN issued :
      LET k == issued[j]
      IN  (args.end - EarliestStartOf(k) >= HOURLY_SPLIT_HOURS * Hour /\ plan[k].input.Granularity = "HOURLY") =>
            /\ j > 1
            /\ plan[issued[j - 1]].batch = plan[k].batch
            /\ plan[issued[j - 1]].input.Granularity = "DAILY"
            /\ plan[issued[j - 1]].input.Start = DailyStamp(EarliestStartOf(k))
            /\ plan[issued[j - 1]].input.End = DailyStamp(AlignedTo(args.end, "DAILY"))
            /\ plan[k].input.Start = HourlyStamp(AlignedTo(args.end, "DAILY"))
            /\ plan[k].input.End = HourlyStamp(AlignedTo(args.end, "HOURLY") + Hour)

\* C4 as stated: no HOURLY query is sent whose time span starts more than
\* 14 x 24 hours before now; the call fails before the query is sent.
C4_HourlyLookbackAgainstNow ==
  op \in SequentialOps =>
    \A j \in DOMAIN issued :
      plan[issued[j]].input.Granularity = "HOURLY" =>
        args.now - TimeOf(plan[issued[j]].input.Start)
          <= MAX_DAYS_FOR_HOURLY * HOURS_PER_DAY * Hour

\* The batch query whose account filter holds account a.
BatchOf(a) == CHOOSE b \in DOMAIN plan : a \in Range(plan[b].input.Accounts)

\* The daily costs of the accounts whose batch succeeded with data: one
\* entry per day from the day of start up to, not including, the day of end
\* (the query is sent with both formatted as dates), of the account's cost
\* of that day.
ExpectedDailyCosts ==
  LET ok == {a \in Range(args.ids) \cap args.used :
               BatchOf(a) \in DOMAIN log /\ log[BatchOf(a)].outcome = "data"}
      days == (args.start \div Day)..((args.end \div Day) - 1)
  IN  [a \in ok |-> [s \in {DailyStamp(d * Day) : d \in days} |-> Num(HOURS_PER_DAY * Rate(a))]]

\* C5: getDailyCostsByAccount never rejects, whatever batches fail: once
\* every batch has settled the call has resolved, and its map holds exactly
\* the entries of the batches that succeeded, none of a failed batch.
C5_DailyCostsSurviveFailedBatches ==
  op = "getDailyCostsByAccount" =>
    /\ pc \in {"awaiting", "resolved"}
    /\ returned.status # "rejected"
    /\ (DOMAIN log = DOMAIN plan) <=> (pc = "resolved")
    /\ pc = "resolved" =>
         /\ returned.status = "resolved"
         /\ returned.value = ExpectedDailyCosts
         /\ \A b \in DOMAIN log : log[b].status = "rejected" =>
              \A a \in Range(plan[b].input.Accounts) : a \notin DOMAIN returned.value

\* C5 witness: three batches, one of which failed while the other two
\* returned data; the call resolved with the accounts of those two.
C5_Witness ==
  /\ op = "getDailyCostsByAccount"
  /\ pc = "resolved"
  /\ Len(plan) = 3
  /\ Cardinality({b \in DOMAIN log : log[b].status = "rejected"}) = 1
  /\ Cardinality({b \in DOMAIN log : log[b].outcome = "data"}) = 2
  /\ Cardinality(DOMAIN returned.value) >= 2

Succeeded(outcome) == outcome \in {"empty", "data"}

\* C6: in getCostForLeases and getCostForRange a failed query rejects the
\* call with that query's error at once: it is the last query the call
\* sent, nothing is in flight, and the caller gets the error and no report;
\* a call that resolves has had every query of every batch answered well.
C6_FailFast ==
  op \in {"getCostForLeases", "getCostForRange"} =>
    LET n == Cardinality(DOMAIN log)
    IN  /\ (\E j \in DOMAIN log : ~Succeeded(log[j].outcome)) <=> (pc = "rejected")
        /\ pc = "rejected" =>
             /\ returned.status = "rejected"
             /\ returned.error = log[n].outcome
             /\ returned.value = <<>>
             /\ \A j \in 1..(n - 1) : Succeeded(log[j].outcome)
             /\ Range(issued) = 1..n
             /\ inflight = {}
        /\ pc = "resolved" =>
             /\ returned.status = "resolved"
             /\ DOMAIN log = DOMAIN plan
             /\ Range(issued) = DOMAIN plan

\* C6 witness: a call of several queries was rejected by a failure of a
\* query that was not its last, after an earlier query had returned data.
C6_Witness ==
  /\ op \in {"getCostForLeases", "getCostForRange"}
  /\ pc = "rejected"
  /\ Cardinality(DOMAIN log) >= 2
  /\ Cardinality(DOMAIN log) < Len(plan)
  /\ log[1].outcome = "data"

\* C7: within a call of getCostForLeases or getCostForRange at most one
\* query is outstanding, and queries are sent in order, each only after the
\* one before it has been answered.
C7_OneOutstandingQuery ==
  op \in {"getCostForLeases", "getCostForRange"} =>
    /\ Cardinality(inflight) <= 1
    /\ \A j \in DOMAIN issued : issued[j] = j
    /\ Len(issued) <= Cardinality(DOMAIN log) + 1
    /\ inflight \subseteq {Len(issued)} \ DOMAIN log

\* C7 witness: the HOURLY query of a split batch is outstanding, after the
\* DAILY query of the batch was answered, with a further batch to come.
C7_Witness ==
  /\ op = "getCostForLeases"
  /\ pc = "awaiting"
  /\ \E k \in inflight :
       /\ plan[k].part = "hourly"
       /\ k - 1 \in DOMAIN log
       /\ k < Len(plan)

RECURSIVE Concat(_)
\* The chunks of a sequence of sequences, joined in order.
Concat(chunks) ==
  IF chunks = <<>> THEN <<>> ELSE Head(chunks) \o Concat(Tail(chunks))

\* C9: batch(items, k) of n items yields ceil(n / k) chunks; chunk c is the
\* contiguous slice of items that begins after the first (c - 1) * k items,
\* of length k, but for the last which may be shorter and is never empty;
\* the chunks joined in order are items.
C9_BatchChunks ==
  pout.done =>
    LET items == pin.array
        k == pin.size
        n == Len(items)
        chunks == pout.chunks
    IN  /\ Len(chunks) = (n + k - 1) \div k
        /\ \A c \in DOMAIN chunks :
             /\ chunks[c] = [x \in 1..Len(chunks[c]) |-> items[(c - 1) * k + x]]
             /\ Len(chunks[c]) >= 1
             /\ Len(chunks[c]) <= k
             /\ c < Len(chunks) => Len(chunks[c]) = k
        /\ Concat(chunks) = items

\* C9 witness: a list whose length is not a multiple of the batch size was
\* cut into several chunks, the last one shorter.
C9_Witness ==
  /\ pout.done
  /\ Len(pin.array) % pin.size # 0
  /\ Len(pout.chunks) >= 2
  /\ Len(pout.chunks[Len(pout.chunks)]) < pin.size

Amount(report, x) == getCost(report, x)[1]

RECURSIVE SumAmounts(_, _)
SumAmounts(report, S) ==
  IF S = {} THEN 0
  ELSE LET x == CHOOSE y \in S : TRUE
       IN  report[x][1] + SumAmounts(report, S \ {x})

\* C10: merging reports a and b in either order, and a, b and c in either
\* grouping and order, gives the same accounts with the same amounts: each
\* account of any of the reports, with the sum of its amounts; and the total
\* cost of the merged report is the sum of the total costs of the reports.
C10_MergeCommutativeAssociative ==
  pout.done =>
    /\ pout.ab = pout.ba
    /\ DOMAIN pout.ab = DOMAIN pin.a \cup DOMAIN pin.b
    /\ \A x \in DOMAIN pout.ab : pout.ab[x] = Num(Amount(pin.a, x) + Amount(pin.b, x))
    /\ pout.ab_c = pout.a_bc
    /\ pout.ab_c = pout.cb_a
    /\ DOMAIN pout.ab_c = DOMAIN pin.a \cup DOMAIN pin.b \cup DOMAIN pin.c
    /\ totalCost(pout.ab_c) =
         Num(SumAmounts(pin.a, DOMAIN pin.a) + SumAmounts(pin.b, DOMAIN pin.b)
               + SumAmounts(pin.c, DOMAIN pin.c))
    /\ totalCost(pout.ab) = Plus(totalCost(pin.a), totalCost(pin.b))

\* C10 witness: three reports that share an account, with different
\* amounts, one of them holding a second account, were merged.
C10_Witness ==
  /\ pout.done
  /\ "111" \in DOMAIN pin.a \cap DOMAIN pin.b \cap DOMAIN pin.c
  /\ pin.a["111"] # pin.b["111"]
  /\ pin.b["111"] # pin.c["111"]
  /\ "222" \in DOMAIN pin.b \ DOMAIN pin.a
  /\ pout.ab_c["111"] = Num(Amount(pin.a, "111") + Amount(pin.b, "111") + Amount(pin.c, "111"))

\* ------------------------------------------ AccountsCostReport.addCost, on its own

MaxCalls == 3

\* The calls made on a fresh report: [id, amount], amounts finite numbers
\* with 0 and negatives.
AddCalls == {[id |-> a, amount |-> n] : a \in MergeAccounts, n \in MergeAmounts}

CallLists == UNION {[1..n -> AddCalls] : n \in 0..MaxCalls}

InitAddCost ==
  /\ NoCall
  /\ NoRun
  /\ pin \in {[calls |-> c] : c \in CallLists}
  /\ pout = [applied |-> 0, costMap |-> EmptyReport]

\* The next addCost of the list is made on the report.
ApplyAddCost ==
  /\ pout.applied < Len(pin.calls)
  /\ LET c == pin.calls[pout.applied + 1]
     IN  pout' = [applied |-> pout.applied + 1,
                  costMap |-> addCost(pout.costMap, c.id, Num(c.amount))]
  /\ UNCHANGED <<pin, callVars, releaseVars>>

SpecAddCost == InitAddCost /\ [][ApplyAddCost]_vars

RECURSIVE SumCalls(_, _, _)
\* The sum of the amounts of the first n calls that are for an account of S.
SumCalls(calls, n, S) ==
  IF n = 0 THEN 0
  ELSE (IF calls[n].id \in S THEN calls[n].amount ELSE 0) + SumCalls(calls, n - 1, S)

\* C11: after any sequence of addCost calls on a fresh report, getCost(X) is
\* the sum of the amounts added for X, 0 for an account never added (which
\* has no entry), and totalCost() is the sum of all the amounts added.
C11_AddCostSums ==
  LET n == pout.applied
      added == {pin.calls[j].id : j \in 1..n}
  IN  /\ DOMAIN pout.costMap = added
      /\ \A x \in MergeAccounts \cup {"333"} :
           getCost(pout.costMap, x) = Num(SumCalls(pin.calls, n, {x}))
      /\ totalCost(pout.costMap) = Num(SumCalls(pin.calls, n, MergeAccounts))

\* C11 witness: three amounts were added for one account, the first two
\* cancelling to 0, and the report holds the third.
C11_Witness ==
  /\ pout.applied = 3
  /\ \A j \in 1..3 : pin.calls[j].id = "111"
  /\ pin.calls[1].amount + pin.calls[2].amount = 0
  /\ pin.calls[1].amount # 0
  /\ pin.calls[3].amount # 0
  /\ getCost(pout.costMap, "111") = Num(pin.calls[3].amount)

\* ------------------------------------- the reduction of a response, on its own

MaxBuckets == 3

\* What the amount of a returned group can be: a decimal string, a string
\* that parseFloat cannot read, or nothing.
AmountKinds ==
  {[kind |-> "number", num |-> n] : n \in {2, 3}}
    \cup {[kind |-> "unparsable", num |-> 0], [kind |-> "absent", num |-> 0]}

\* The group of account "111" with such an amount.
GroupWith(amount) ==
  CASE amount.kind = "number" -> [Keys |-> <<"111">>, Amount |-> [num |-> amount.num]]
    [] amount.kind = "unparsable" -> [Keys |-> <<"111">>, Amount |-> [raw |-> "n/a"]]
    [] OTHER -> [Keys |-> <<"111">>]

\* A DAILY response of one bucket per day from day 0 on, each with one group.
ResponseWith(amounts) ==
  [d \in DOMAIN amounts |->
     [TimePeriod |-> [Start |-> PeriodStartString((d - 1) * Day, "DAILY")],
      Groups |-> <<GroupWith(amounts[d])>>]]

InitReduce ==
  /\ NoCall
  /\ NoRun
  /\ pin \in {[amounts |-> a] : a \in UNION {[1..n -> AmountKinds] : n \in 0..MaxBuckets}}
  /\ pout = NotApplied

\* The response is reduced for a lease that began at day 0, as
\* getCostByGranularityForLeases and getDailyCostsByAccount reduce it.
ApplyReduce ==
  /\ ~pout.done
  /\ pout' = [done |-> TRUE,
              report |-> calculateTotalCostForLeases(ResponseWith(pin.amounts),
                                                     "111" :> T(0, 0, 0), "DAILY"),
              daily |-> processCostResponse(ResponseWith(pin.amounts))]
  /\ UNCHANGED <<pin, callVars, releaseVars>>

SpecReduce == InitReduce /\ [][ApplyReduce]_vars

RECURSIVE SumParsable(_, _)
\* The sum of the first n amounts that are numbers.
SumParsable(amounts, n) ==
  IF n = 0 THEN 0
  ELSE (IF amounts[n].kind = "number" THEN amounts[n].num ELSE 0) + SumParsable(amounts, n - 1)

\* C12 as stated: a group whose amount is absent or does not parse adds 0,
\* wherever it comes among the account's groups: the account's total is the
\* sum of its parsable amounts, and each daily entry of such a group is 0.
C12_UnparsableAmountIsZero ==
  pout.done =>
    /\ getCost(pout.report, "111") = Num(SumParsable(pin.amounts, Len(pin.amounts)))
    /\ \A d \in DOMAIN pin.amounts :
         pin.amounts[d].kind # "number" =>
           pout.daily["111"][PeriodStartString((d - 1) * Day, "DAILY")] = Num(0)

RECURSIVE SumSubReports(_, _)
\* The sum of account a's amounts in the reports of the first n queries.
SumSubReports(a, n) ==
  IF n = 0 THEN 0 ELSE getCost(log[n].sub, a)[1] + SumSubReports(a, n - 1)

\* C13: a query answered with no buckets does not fail the operation and
\* adds no cost: in getCostForLeases and getCostForRange the next query
\* is sent after it, and the call resolves with the sum of the reports of
\* all its queries; in getDailyCostsByAccount the batch is fulfilled with no
\* entries and the call resolves with the entries of the other batches.
C13_EmptyResponseIsZeroCost ==
  /\ op \in {"getCostForLeases", "getCostForRange"} =>
       /\ \A k \in DOMAIN log : log[k].outcome = "empty" => log[k].sub = EmptyReport
       /\ (\A k \in DOMAIN log : Succeeded(log[k].outcome)) =>
            /\ pc \in {"awaiting", "resolved"}
            /\ pc = "awaiting" => Len(issued) = Cardinality(DOMAIN log) + 1
            /\ pc = "resolved" =>
                 /\ DOMAIN log = DOMAIN plan
                 /\ \A a \in DOMAIN args.accts :
                      getCost(returned.value, a) = Num(SumSubReports(a, Len(plan)))
  /\ op = "getDailyCostsByAccount" =>
       /\ \A b \in DOMAIN log :
            log[b].outcome = "empty" => log[b].status = "fulfilled" /\ log[b].value = <<>>
       /\ (\A b \in DOMAIN log : Succeeded(log[b].outcome)) =>
            /\ pc \in {"awaiting", "resolved"}
            /\ pc = "resolved" => DOMAIN log = DOMAIN plan /\ returned.value = ExpectedDailyCosts

\* C13 witness: a getCostForLeases call resolved with a cost after a query
\* that was not its last was answered with no buckets.
C13_Witness ==
  /\ op = "getCostForLeases"
  /\ pc = "resolved"
  /\ \E k \in DOMAIN log :
       /\ log[k].outcome = "empty"
       /\ \E j \in DOMAIN log : j > k /\ log[j].outcome = "data" /\ log[j].sub # EmptyReport
  /\ returned.value # EmptyReport

\* C13 witness for getDailyCostsByAccount is part of the same state space:
\* a batch without buckets beside a batch with data.
C13_DailyCase ==
  /\ op = "getDailyCostsByAccount"
  /\ pc = "resolved"
  /\ \E b \in DOMAIN log : log[b].outcome = "empty"
  /\ returned.value # <<>>

\* The queries sent so far for the batch of query k.
IssuedForBatchOf(k) == {j \in Range(issued) : plan[j].batch = plan[k].batch}

\* C14: in an HOURLY getCostForLeases, a batch with end - earliestStart
\* below 24 hours has exactly one query, an HOURLY query over
\* [earliestStart, start of the hour after end), and no DAILY query.
C14_ShortHourlySingleQuery ==
  (op = "getCostForLeases" /\ args.granularity = "HOURLY") =>
    /\ \A k \in Range(issued) :
         args.end - EarliestStartOf(k) < HOURLY_SPLIT_HOURS * Hour =>
           /\ IssuedForBatchOf(k) = {k}
           /\ plan[k].input.Granularity = "HOURLY"
           /\ plan[k].input.Start = HourlyStamp(EarliestStartOf(k))
           /\ plan[k].input.End = HourlyStamp(AlignedTo(args.end, "HOURLY") + Hour)
           /\ Range(plan[k].input.Accounts) = DOMAIN plan[k].accts
    /\ pc = "resolved" => Range(issued) = DOMAIN plan

\* C14 witness: a resolved HOURLY call whose second batch starts 20 hours
\* before end and had its one query answered with data.
C14_Witness ==
  /\ op = "getCostForLeases"
  /\ args.granularity = "HOURLY"
  /\ pc = "resolved"
  /\ args.end = T(2, 9, 1)
  /\ \E k \in Range(issued) :
       /\ EarliestStartOf(k) = T(1, 13, 1)
       /\ plan[k].batch = 2
       /\ log[k].outcome = "data"
       /\ IssuedForBatchOf(k) = {k}

\* The lease starts of the accounts of batch b.
StartsOfBatch(b) == UNION {Range(plan[k].accts) : k \in {j \in DOMAIN plan : plan[j].batch = b}}

\* The stamp a query of the given granularity carries for the instant t.
StampOf(t, granularity) ==
  IF granularity = "HOURLY" THEN HourlyStamp(t) ELSE DailyStamp(t)

\* C15: the batches of getCostForLeases are contiguous slices of the
\* accounts in ascending order of lease start: they partition the accounts,
\* all but the last are full, and no account of a batch starts after an
\* account of a later batch; the first query of each batch has the least
\* lease start of the batch as its lower bound; in DAILY mode a batch has
\* exactly one query, DAILY over [that least start, start of the day after end).
C15_BatchesByLeaseStart ==
  op = "getCostForLeases" =>
    LET batches == {plan[k].batch : k \in DOMAIN plan}
        accountsOf(b) == UNION {DOMAIN plan[k].accts : k \in {j \in DOMAIN plan : plan[j].batch = b}}
    IN  /\ UNION {accountsOf(b) : b \in batches} = DOMAIN args.accts
        /\ \A b \in batches :
             /\ \A c \in batches : b < c =>
                  /\ accountsOf(b) \cap accountsOf(c) = {}
                  /\ Cardinality(accountsOf(b)) = MAX_ACCOUNTS_IN_FILTER
                  /\ \A t \in StartsOfBatch(b), u \in StartsOfBatch(c) : t <= u
             /\ Cardinality(accountsOf(b)) <= MAX_ACCOUNTS_IN_FILTER
        /\ \A k \in DOMAIN plan :
             /\ \A a \in DOMAIN plan[k].accts : plan[k].accts[a] = args.accts[a]
             /\ (k = 1 \/ plan[k - 1].batch # plan[k].batch) =>
                  plan[k].input.Start = StampOf(EarliestStartOf(k), plan[k].input.Granularity)
        /\ args.granularity = "DAILY" =>
             \A k \in Range(issued) :
               /\ IssuedForBatchOf(k) = {k}
               /\ plan[k].input.Granularity = "DAILY"
               /\ plan[k].input.Start = DailyStamp(EarliestStartOf(k))
               /\ plan[k].input.End = DailyStamp(AlignedTo(args.end, "DAILY") + Day)
               /\ Range(plan[k].input.Accounts) = DOMAIN plan[k].accts
        /\ pc = "resolved" => Range(issued) = DOMAIN plan

\* C15 witness: a resolved DAILY call of two batches, where two accounts
\* with the same lease start fell into different batches and the first
\* batch begins with an earlier lease.
C15_Witness ==
  /\ op = "getCostForLeases"
  /\ args.granularity = "DAILY"
  /\ pc = "resolved"
  /\ Len(plan) = 2
  /\ \E a \in DOMAIN plan[1].accts, c \in DOMAIN plan[2].accts :
       plan[1].accts[a] = plan[2].accts[c]
  /\ EarliestStartOf(1) < EarliestStartOf(2)

\* C16: getCostForRange makes one query per batch of at most
\* MAX_ACCOUNTS_IN_FILTER accounts, the batches partitioning the accounts;
\* every query is DAILY over the caller's start and end, with the caller's
\* tag (if any) beside the filter of the batch's accounts; a group's amount
\* is added exactly when the account's lease start truncated to the day is
\* at or before the bucket start; the call resolves with the sum of the
\* reports of its batches.
C16_RangeQueries ==
  op = "getCostForRange" =>
    /\ UNION {DOMAIN plan[k].accts : k \in DOMAIN plan} = DOMAIN args.accts
    /\ \A k \in DOMAIN plan :
         /\ plan[k].batch = k
         /\ plan[k].input.Granularity = "DAILY"
         /\ plan[k].input.Start = DailyStamp(args.start)
         /\ plan[k].input.End = DailyStamp(args.end)
         /\ plan[k].input.Tag = args.tag
         /\ Range(plan[k].input.Accounts) = DOMAIN plan[k].accts
         /\ Cardinality(DOMAIN plan[k].accts) <= MAX_ACCOUNTS_IN_FILTER
         /\ k < Len(plan) => Cardinality(DOMAIN plan[k].accts) = MAX_ACCOUNTS_IN_FILTER
         /\ \A j \in DOMAIN plan : j # k => DOMAIN plan[j].accts \cap DOMAIN plan[k].accts = {}
    /\ \A k \in DataQueries({"getCostForRange"}) :
         \A a \in DOMAIN plan[k].accts :
           getCost(log[k].sub, a) =
             Num(SumGroups(ResponseOf(k),
                           GroupsFrom(ResponseOf(k), a, AlignedTo(args.accts[a], "DAILY"))))
    /\ pc = "resolved" =>
         /\ Range(issued) = DOMAIN plan
         /\ \A a \in DOMAIN args.accts :
              getCost(returned.value, a) = Num(SumSubReports(a, Len(plan)))

\* C16 witness: a resolved call with a tag and two batches, both answered
\* with data for day 0 and day 1, with an account whose lease began in the
\* afternoon of day 1: it has the cost of day 1 and not of day 0.
C16_Witness ==
  /\ op = "getCostForRange"
  /\ pc = "resolved"
  /\ args.tag = "CostCategory"
  /\ Len(plan) = 2
  /\ args.start = T(0, 10, 1)
  /\ \A k \in DOMAIN log : log[k].outcome = "data"
  /\ \E a \in DOMAIN plan[2].accts \cap args.used :
       /\ args.accts[a] = T(1, 13, 1)
       /\ returned.value[a] = Num(HOURS_PER_DAY * Rate(a))

\* ------------------- the merge of getDailyCostsByAccount, on any batch results

MaxDailyBatches == 2

DateKeys == {PeriodStartString(0, "DAILY"), PeriodStartString(Day, "DAILY")}

\* date -> cost maps of one account: one or both dates, costs 1 or 2.
DateMaps == UNION {[S -> {Num(1), Num(2)}] : S \in (SUBSET DateKeys) \ {{}}}

\* What a throttled call can return: entries for account "111", for
\* account "222", for both or for none.
BatchValues ==
  {(IF x = <<>> THEN <<>> ELSE "111" :> x) @@ (IF y = <<>> THEN <<>> ELSE "222" :> y) :
     x \in DateMaps \cup {<<>>},
     y \in {<<>>, PeriodStartString(0, "DAILY") :> Num(1)}}

\* How the promise of a throttled call can settle.
SettledResults ==
  {[status |-> "fulfilled", outcome |-> "data", value |-> v] : v \in BatchValues}
    \cup {[status |-> "rejected", outcome |-> "rejected", value |-> <<>>]}

InitDailyMerge ==
  /\ NoCall
  /\ NoRun
  /\ pin \in {[responses |-> r] :
                r \in UNION {[1..n -> SettledResults] : n \in 1..MaxDailyBatches}}
  /\ pout = [done |-> FALSE, results |-> <<>>, value |-> <<>>]

\* One more of the throttled calls settles, in any order; when it is the
\* last, Promise.allSettled resolves and the results are merged.
SettleDailyBatch ==
  /\ ~pout.done
  /\ \E b \in DOMAIN pin.responses \ DOMAIN pout.results :
       LET r == pin.responses[b]
           settled == [status |-> r.status, outcome |-> r.outcome, value |-> r.value,
                       seq |-> Cardinality(DOMAIN pout.results) + 1]
           results == [j \in DOMAIN pout.results \cup {b} |->
                         IF j = b THEN settled ELSE pout.results[j]]
           last == DOMAIN results = DOMAIN pin.responses
       IN  pout' = [done |-> last,
                    results |-> results,
                    value |-> IF last THEN AwaitAllSettled(results).value ELSE <<>>]
  /\ UNCHANGED <<pin, callVars, releaseVars>>

SpecDailyMerge == InitDailyMerge /\ [][SettleDailyBatch]_vars

\* The fulfilled batches that returned an entry for account a and date d.
BatchesWith(a, d) ==
  {b \in DOMAIN pin.responses :
     /\ pin.responses[b].status = "fulfilled"
     /\ a \in DOMAIN pin.responses[b].value
     /\ d \in DOMAIN pin.responses[b].value[a]}

HasEntry(a, d) == a \in DOMAIN pout.value /\ d \in DOMAIN pout.value[a]

\* C17 as stated: every (account, date, amount) entry of every fulfilled
\* batch is in the returned map.
C17_EveryBatchEntryKept ==
  pout.done =>
    \A a \in {"111", "222"}, d \in DateKeys : \A b \in BatchesWith(a, d) :
      HasEntry(a, d) /\ pout.value[a][d] = pin.responses[b].value[a][d]

\* C17 as amended: every (account, date) of every fulfilled batch is in the
\* returned map, also when several batches return the same account; its
\* amount is that of the last batch, in batch order, that returned it.
C17_EveryBatchKeyKept ==
  pout.done =>
    \A a \in {"111", "222"}, d \in DateKeys :
      IF BatchesWith(a, d) = {} THEN ~HasEntry(a, d)
      ELSE /\ HasEntry(a, d)
           /\ \E b \in BatchesWith(a, d) :
                /\ \A c \in BatchesWith(a, d) : c <= b
                /\ pout.value[a][d] = pin.responses[b].value[a][d]

\* C17 witness: two batches returned the same account, each with a date the
\* other did not return, and the returned map holds both dates.
C17_Witness ==
  /\ pout.done
  /\ Len(pin.responses) = 2
  /\ \E d \in DateKeys, e \in DateKeys :
       /\ BatchesWith("111", d) = {1}
       /\ BatchesWith("111", e) = {2}
       /\ HasEntry("111", d)
       /\ HasEntry("111", e)

RECURSIVE MergedByIndex(_)
\* The fold of the fulfilled responses 1..n in batch order, by date key.
MergedByIndex(n) ==
  IF n = 0 THEN <<>>
  ELSE LET before == MergedByIndex(n - 1)
           r == pin.responses[n]
       IN  IF r.status # "fulfilled" THEN before
           ELSE [a \in DOMAIN before \cup DOMAIN r.value |->
                   IF a \notin DOMAIN r.value THEN before[a]
                   ELSE IF a \notin DOMAIN before THEN r.value[a]
                   ELSE [d \in DOMAIN before[a] \cup DOMAIN r.value[a] |->
                           IF d \in DOMAIN r.value[a] THEN r.value[a][d] ELSE before[a][d]]]

\* C18: the returned map is determined by the responses of the batches
\* alone, whatever the order in which they settled.
C18_CompletionOrderIrrelevant ==
  pout.done => pout.value = MergedByIndex(Len(pin.responses))

\* C18 witness: batch 2 settled before batch 1, both with an entry for the
\* same account and date but different amounts, and the map was returned.
C18_Witness ==
  /\ pout.done
  /\ Len(pin.responses) = 2
  /\ pout.results[2].seq = 1
  /\ \E d \in DateKeys :
       /\ BatchesWith("111", d) = {1, 2}
       /\ pin.responses[1].value["111"][d] # pin.responses[2].value["111"][d]
       /\ pout.value["111"][d] = pin.responses[2].value["111"][d]

\* ------------------------------- merge on report objects that may be the same

\* Two report objects r1 and r2; this is r1 and other is r1 or r2.
InitMergeObjects ==
  /\ NoCall
  /\ NoRun
  /\ pin \in {[this |-> "r1", other |-> o, heap |-> [r1 |-> a, r2 |-> b]] :
                o \in {"r1", "r2"}, a \in Reports, b \in Reports}
  /\ pout = [done |-> FALSE, heap |-> <<>>]

\* this.merge(other): Object.entries(other.costMap) is taken once, before
\* the loop, and every addCost writes this.costMap.
ApplyMergeObjects ==
  /\ ~pout.done
  /\ pout' = [done |-> TRUE,
              heap |-> [pin.heap EXCEPT
                          ![pin.this] = Merge2(pin.heap[pin.this], pin.heap[pin.other])]]
  /\ UNCHANGED <<pin, callVars, releaseVars>>

SpecMergeObjects == InitMergeObjects /\ [][ApplyMergeObjects]_vars

\* Every entry of other, as it was before the call, is added into this.
EntriesAdded ==
  /\ DOMAIN pout.heap[pin.this] = DOMAIN pin.heap[pin.this] \cup DOMAIN pin.heap[pin.other]
  /\ \A x \in DOMAIN pout.heap[pin.this] :
       pout.heap[pin.this][x] =
         Num(Amount(pin.heap[pin.this], x) + Amount(pin.heap[pin.other], x))

\* C19 as stated: a.merge(b) adds every entry of b into a and leaves b's
\* entries unchanged, also when a and b are the same object.
C19_MergeLeavesOtherUnchanged ==
  pout.done => EntriesAdded /\ pout.heap[pin.other] = pin.heap[pin.other]

\* C19 as amended: a.merge(b) adds every entry b had before the call into a;
\* it leaves b's entries unchanged when b is another object than a, and when
\* b is a itself every entry of the report ends at twice its amount.
C19_MergeLeavesDistinctOtherUnchanged ==
  pout.done =>
    /\ EntriesAdded
    /\ pin.other # pin.this => pout.heap[pin.other] = pin.heap[pin.other]
    /\ pin.other = pin.this =>
         /\ DOMAIN pout.heap[pin.other] = DOMAIN pin.heap[pin.other]
         /\ \A x \in DOMAIN pin.heap[pin.other] :
              pout.heap[pin.other][x] = Num(2 * pin.heap[pin.other][x][1])
    /\ pout.heap[IF pin.this = "r1" THEN "r2" ELSE "r1"] = pin.heap[IF pin.this = "r1" THEN "r2" ELSE "r1"]

\* C19 witness: a report with an entry for 111 was merged into another
\* report that had entries for 111 and 222.
C19_Witness ==
  /\ pout.done
  /\ pin.other = "r2"
  /\ DOMAIN pin.heap.r2 = {"111"}
  /\ pin.heap.r2["111"] # Num(0)
  /\ DOMAIN pin.heap.r1 = {"111", "222"}
  /\ pout.heap.r1["111"] # pin.heap.r1["111"]
  /\ pout.heap.r2 = pin.heap.r2

\* ------------------------------------------------------- the release checker

MaxRuns == 2

MaxReleases == 2

\* version strings, some differing only in the case of a letter or in a space
VersionStrings ==
  {"v1.0.0", "V1.0.0", "1.0.0", "v1.0.1", "v1.0.0 ", "v1.0.0-rc1", "v1.0.0-RC1",
   "release-1.0", "Release-1.0", "initial"}

\* toLowerCase on VersionStrings
LowerCase(v) ==
  CASE v = "V1.0.0" -> "v1.0.0"
    [] v = "v1.0.0-RC1" -> "v1.0.0-rc1"
    [] v = "Release-1.0" -> "release-1.0"
    [] OTHER -> v

isNewVersion_IgnoreCase(storedVersion, fetchedVersion) ==
  IF storedVersion = Null THEN FALSE
  ELSE LowerCase(storedVersion[1]) # LowerCase(fetchedVersion[1])

isNewVersion_Always(storedVersion, fetchedVersion) == TRUE

\* VersionStoreService.isNewVersion
isNewVersion(storedVersion, fetchedVersion) ==
  IF storedVersion = Null THEN FALSE ELSE storedVersion # fetchedVersion

\* fetchParameter: a missing parameter, or one whose value is falsy (the empty
\* string), reads as null
fetchParameter ==
  IF parameter = Null \/ parameter[1] = "" THEN Null ELSE parameter

putParameter_NoOverwrite(version) ==
  IF parameter = Null THEN <<version>> ELSE parameter

\* putParameter: the value of the parameter after PutParameter with Overwrite
putParameter(version) == <<version>>

Threw == [checker EXCEPT !.pc = "threw", !.result = "error", !.at = checker.pc]

Returns(text) == [checker EXCEPT !.pc = "returned", !.result = text]

\* EventBridge Scheduler invokes the function (rate(1 day), or a retry of a
\* failed invocation); reservedConcurrentExecutions is 1, so the previous
\* invocation has ended.
Invoke ==
  /\ checker.pc \in {"idle", "returned", "threw"}
  /\ checker.runs < MaxRuns
  /\ checker' = [IdleChecker EXCEPT !.pc = "getLatestRelease",
                                    !.runs = checker.runs + 1,
                                    !.stores = checker.stores,
                                    !.first = (checker.stores = 0)]
  /\ UNCHANGED <<parameter, notifications, github, releases, pin, pout, callVars>>

\* await gitHubService.getLatestRelease() and the branch on its result
GetLatestRelease ==
  /\ checker.pc = "getLatestRelease"
  /\ \E ok \in BOOLEAN :
       checker' =
         IF ~ok THEN Threw
         ELSE IF github = Null
           THEN Returns("No releases found for repository")
           ELSE [checker EXCEPT !.pc = "getLastKnownVersion", !.latestRelease = github,
                                !.read = TRUE, !.change = releases]
  /\ UNCHANGED <<parameter, notifications, github, releases, pin, pout, callVars>>

\* await versionStoreService.getLastKnownVersion() and the branches on it
GetLastKnownVersion ==
  /\ checker.pc = "getLastKnownVersion"
  /\ \E ok \in BOOLEAN :
       checker' =
         IF ~ok THEN Threw
         ELSE IF fetchParameter = Null
           THEN [checker EXCEPT !.pc = "updateVersion", !.lastKnownVersion = Null]
           ELSE IF ~isNewVersion(fetchParameter, checker.latestRelease)
             THEN [Returns("No new release") EXCEPT !.lastKnownVersion = fetchParameter]
             ELSE [checker EXCEPT !.pc = "publishReleaseNotification",
                                  !.lastKnownVersion = fetchParameter]
  /\ UNCHANGED <<parameter, notifications, github, releases, pin, pout, callVars>>

PublishReleaseNotification_Swallow ==
  /\ checker.pc = "publishReleaseNotification"
  /\ \E ok \in BOOLEAN :
       /\ checker' = [checker EXCEPT !.pc = "updateVersion",
                                     !.published = checker.published + (IF ok THEN 1 ELSE 0)]
       /\ notifications' =
            IF ok THEN Append(notifications,
                         [tagName |-> checker.latestRelease[1], run |-> checker.runs,
                          change |-> checker.change])
                  ELSE notifications
  /\ UNCHANGED <<parameter, github, releases, pin, pout, callVars>>

\* await releaseNotificationService.publishReleaseNotification(...)
PublishReleaseNotification ==
  /\ checker.pc = "publishReleaseNotification"
  /\ \E ok \in BOOLEAN :
       IF ok
         THEN /\ notifications' = Append(notifications,
                    [tagName |-> checker.latestRelease[1], run |-> checker.runs,
                     change |-> checker.change])
              /\ checker' = [checker EXCEPT !.pc = "updateVersion",
                                            !.published = checker.published + 1]
         ELSE /\ checker' = Threw
              /\ UNCHANGED notifications
  /\ UNCHANGED <<parameter, github, releases, pin, pout, callVars>>

\* await versionStoreService.updateVersion(latestRelease.tagName) and the return
UpdateVersion ==
  /\ checker.pc = "updateVersion"
  /\ \E ok \in BOOLEAN :
       IF ok
         THEN /\ parameter' = putParameter(checker.latestRelease[1])
              /\ checker' =
                   [Returns(IF checker.lastKnownVersion = Null
                              THEN "First run: stored initial version"
                              ELSE "New release detected")
                      EXCEPT !.wrote = checker.latestRelease,
                             !.stores = checker.stores + 1]
         ELSE /\ checker' = Threw
              /\ UNCHANGED parameter
  /\ UNCHANGED <<notifications, github, releases, pin, pout, callVars>>

\* A release is published in the GitHub repository.
ReleasePublished ==
  /\ releases < MaxReleases
  /\ \E tag \in ReleaseTags :
       /\ github # <<tag>>
       /\ github' = <<tag>>
  /\ releases' = releases + 1
  /\ UNCHANGED <<parameter, notifications, checker, pin, pout, callVars>>

\* The parameter is deleted from the parameter store between two runs.
ParameterDeleted ==
  /\ checker.pc \in {"idle", "returned", "threw"}
  /\ parameter # Null
  /\ parameter' = Null
  /\ UNCHANGED <<notifications, github, releases, checker, pin, pout, callVars>>

InitReleaseChecker ==
  /\ NoCall
  /\ Deployed
  /\ github \in {Null} \cup {<<tag>> : tag \in ReleaseTags}
  /\ pin = <<>>
  /\ pout = NotApplied

NextReleaseChecker ==
  \/ Invoke
  \/ GetLatestRelease
  \/ GetLastKnownVersion
  \/ PublishReleaseNotification
  \/ UpdateVersion
  \/ ReleasePublished
  \/ ParameterDeleted

SpecReleaseChecker == InitReleaseChecker /\ [][NextReleaseChecker]_vars

\* C20: on the first run of the release checker after the stack is deployed
\* (no run before it has stored a version), a run that fetched a release and
\* returned has stored the fetched tag and has published no notification.
C20_FirstRunStoresWithoutNotification ==
  (checker.pc = "returned" /\ checker.first /\ checker.latestRelease # Null)
    => (checker.wrote = checker.latestRelease /\ checker.published = 0)

\* C21: a run that read a non-null stored version different from the latest
\* tag publishes first and writes the store only after the publish succeeded:
\* a run that wrote after reading a version has published, a run that returned
\* on this branch has published once and stored the tag, the publish step
\* itself never changes the stored version, and a run whose publish failed
\* ends with the error, having published nothing and written nothing.
C21_PublishThenUpdate ==
  /\ [](/\ (checker.lastKnownVersion # Null /\ checker.wrote # Null)
             => checker.published = 1
        /\ (checker.pc = "returned" /\ checker.lastKnownVersion # Null
               /\ checker.lastKnownVersion # checker.latestRelease)
             => (checker.published = 1 /\ checker.wrote = checker.latestRelease
                   /\ Len(notifications) > 0
                   /\ notifications[Len(notifications)].tagName = checker.latestRelease[1])
        /\ (checker.pc = "threw" /\ checker.at = "publishReleaseNotification")
             => (checker.result = "error" /\ checker.wrote = Null
                   /\ checker.published = 0))
  /\ [][checker.pc = "publishReleaseNotification" => parameter' = parameter]_vars
  /\ [][(checker.pc = "updateVersion" /\ checker.lastKnownVersion # Null
           /\ parameter' # parameter)
          => checker.published = 1]_vars

C21_Witness ==
  /\ checker.pc = "returned"
  /\ checker.result = "New release detected"
  /\ checker.published = 1
  /\ parameter = checker.latestRelease
  /\ checker.lastKnownVersion \notin {Null, checker.latestRelease}

\* C22: a run to which GitHub reported no release returns at once, having
\* published nothing, written nothing and not read the version store; a run
\* that read a stored version equal to the latest tag returns having published
\* nothing and written nothing; the step that ends such a run changes neither
\* the stored version nor the published notifications.
C22_QuietRuns ==
  /\ [](/\ (checker.pc \notin {"idle", "getLatestRelease"} /\ checker.latestRelease = Null
               /\ checker.at # "getLatestRelease")
             => (checker.pc = "returned" /\ checker.published = 0
                   /\ checker.wrote = Null /\ ~checker.read)
        /\ (checker.latestRelease # Null /\ checker.lastKnownVersion = checker.latestRelease)
             => (checker.pc = "returned" /\ checker.published = 0
                   /\ checker.wrote = Null))
  /\ [][(checker.pc # "returned" /\ checker'.pc = "returned"
           /\ (checker'.latestRelease = Null
                 \/ checker'.lastKnownVersion = checker'.latestRelease))
          => (parameter' = parameter /\ notifications' = notifications)]_vars

C22_Witness ==
  /\ checker.pc = "returned"
  /\ checker.latestRelease # Null
  /\ checker.lastKnownVersion = checker.latestRelease
  /\ parameter = checker.latestRelease
  /\ checker.result = "No new release"

\* ------------------------------------------------ isNewVersion, on its own

InitIsNewVersion ==
  /\ NoCall
  /\ NoRun
  /\ pin \in [storedVersion : {Null} \cup {<<v>> : v \in VersionStrings},
              fetchedVersion : {<<v>> : v \in VersionStrings}]
  /\ pout = NotApplied

ApplyIsNewVersion ==
  /\ ~pout.done
  /\ pout' = [done |-> TRUE, value |-> isNewVersion(pin.storedVersion, pin.fetchedVersion)]
  /\ UNCHANGED <<pin, callVars, releaseVars>>

SpecIsNewVersion == InitIsNewVersion /\ [][ApplyIsNewVersion]_vars

\* C23: isNewVersion(stored, fetched) is true exactly when stored is not null
\* and the two strings differ in any character (case included); it is false
\* for a null stored version; for non-null arguments it gives the same answer
\* with the arguments exchanged.
C23_IsNewVersion ==
  pout.done =>
    /\ pout.value \in BOOLEAN
    /\ pout.value <=> (pin.storedVersion # Null
                         /\ pin.storedVersion[1] # pin.fetchedVersion[1])
    /\ pin.storedVersion = Null => pout.value = FALSE
    /\ pin.storedVersion # Null
         => pout.value = isNewVersion(pin.fetchedVersion, pin.storedVersion)

C23_Witness ==
  /\ pout.done
  /\ pout.value
  /\ pin.storedVersion # Null
  /\ LowerCase(pin.storedVersion[1]) = LowerCase(pin.fetchedVersion[1])

\* ------------------------------------- updateVersion then getLastKnownVersion

\* updateVersion(pin.version): PutParameter succeeds, or the call throws after
\* its attempts, the parameter written or not.
RoundTripUpdateVersion ==
  /\ pout.stage = "start"
  /\ \E ok \in BOOLEAN :
       IF ok
         THEN /\ parameter' = putParameter(pin.version)
              /\ pout' = [stage |-> "stored", value |-> Null]
         ELSE /\ parameter' \in {parameter, putParameter(pin.version)}
              /\ pout' = [stage |-> "threw", value |-> Null]
  /\ UNCHANGED <<pin, callVars, notifications, github, releases, checker>>

\* getLastKnownVersion() after it
RoundTripGetLastKnownVersion ==
  /\ pout.stage = "stored"
  /\ \E ok \in BOOLEAN :
       pout' = IF ok THEN [stage |-> "read", value |-> fetchParameter]
                     ELSE [stage |-> "threw", value |-> Null]
  /\ UNCHANGED <<pin, callVars, releaseVars>>

\* The parameter is absent, holds the placeholder or holds an earlier version.
InitRoundTrip ==
  /\ NoCall
  /\ notifications = <<>>
  /\ checker = IdleChecker
  /\ github = Null
  /\ releases = 0
  /\ parameter \in {Null, <<PlaceholderValue>>} \cup {<<v>> : v \in {"v1.0.0", "v1.0.1"}}
  /\ pin \in [version : VersionStrings]
  /\ pout = [stage |-> "start", value |-> Null]

NextRoundTrip ==
  \/ RoundTripUpdateVersion
  \/ RoundTripGetLastKnownVersion

SpecRoundTrip == InitRoundTrip /\ [][NextRoundTrip]_vars

\* C24: for a version string v, updateVersion(v) followed by
\* getLastKnownVersion() on the same parameter returns exactly v, not null and
\* no other string, whatever the parameter held before.
C24_RoundTrip ==
  pout.stage = "read" => (pout.value # Null /\ pout.value = <<pin.version>>)

C24_Witness ==
  /\ pout.stage = "read"
  /\ pout.value = <<pin.version>>
  /\ pin.version \notin {PlaceholderValue, "v1.0.0", "v1.0.1"}

\* --------------------------------------------- the retried service operations

numOfAttempts == 3

\* no error: the underlying call returned
NoError == [class |-> "none", retryable |-> "undefined"]

\* an error the service did not classify: it is rethrown as it came
Unclassified == [class |-> "Error", retryable |-> "undefined"]

Classified(class, retryable) == [class |-> class, retryable |-> retryable]

\* what one GetParameter, PutParameter, Publish or fetch can come back with
Responses(operation) ==
  CASE operation = "getLastKnownVersion" ->
         {"ok", "ParameterNotFound", "AccessDeniedException", "ServiceUnavailable",
          "InternalServerError", "ThrottlingException", "TimeoutError"}
    [] operation = "updateVersion" ->
         {"ok", "AccessDeniedException", "ServiceUnavailable",
          "InternalServerError", "ThrottlingException", "TimeoutError"}
    [] operation = "publishReleaseNotification" ->
         {"ok", "NotFoundException", "AuthorizationErrorException",
          "InternalErrorException", "ThrottledException", "KMSThrottlingException",
          "TimeoutError"}
    [] operation = "getLatestRelease" ->
         {"200", "200 invalid body", "404 Not Found", "404", "403", "429", "500", "503",
          "TypeError"}

\* fetchParameter: the error it throws for a failed GetParameter
fetchParameterError(name) ==
  CASE name \in {"ok", "ParameterNotFound"} -> NoError
    [] name = "AccessDeniedException" -> Classified("VersionStoreError", FALSE)
    [] name \in {"ServiceUnavailable", "InternalServerError", "ThrottlingException"} ->
         Classified("VersionStoreError", TRUE)
    [] OTHER -> Unclassified

\* putParameter: the error it throws for a failed PutParameter
putParameterError(name) ==
  CASE name = "ok" -> NoError
    [] name = "AccessDeniedException" -> Classified("VersionStoreError", FALSE)
    [] name \in {"ServiceUnavailable", "InternalServerError", "ThrottlingException"} ->
         Classified("VersionStoreError", TRUE)
    [] OTHER -> Unclassified

\* publishToSns: the error it throws for a failed Publish
publishToSnsError(name) ==
  CASE name = "ok" -> NoError
    [] name \in {"NotFoundException", "AuthorizationErrorException"} ->
         Classified("ReleaseNotificationError", FALSE)
    [] name \in {"InternalErrorException", "ThrottledException", "KMSThrottlingException"} ->
         Classified("ReleaseNotificationError", TRUE)
    [] OTHER -> Unclassified

\* fetchWithErrorHandling: the error it throws for a response (fetch itself
\* rejects with a TypeError when the network fails)
fetchWithErrorHandlingError(response) ==
  CASE response = "TypeError" -> Unclassified
    [] response \in {"200", "404 Not Found"} -> NoError
    [] response \in {"500", "503"} -> Classified("GitHubApiError", TRUE)
    [] OTHER -> Classified("GitHubApiError", FALSE)

ErrorOf(operation, response) ==
  CASE operation = "getLastKnownVersion" -> fetchParameterError(response)
    [] operation = "updateVersion" -> putParameterError(response)
    [] operation = "publishReleaseNotification" -> publishToSnsError(response)
    [] operation = "getLatestRelease" -> fetchWithErrorHandlingError(response)

retry_Always(error) == TRUE

\* the retry option passed to backOff: the same in the four operations
retry(error) ==
  IF error.class \in {"VersionStoreError", "ReleaseNotificationError", "GitHubApiError"}
    THEN error.retryable
    ELSE TRUE

Operations ==
  {"getLastKnownVersion", "updateVersion", "publishReleaseNotification", "getLatestRelease"}

InitBackOff ==
  /\ NoCall
  /\ NoRun
  /\ pin \in [operation : Operations]
  /\ pout = [status |-> "running", attempts |-> 0, responses |-> <<>>, error |-> NoError]

\* backOff(request, {numOfAttempts: 3, retry}): one attempt of the request.
\* A failed attempt is counted, the retry option is asked, and the error is
\* thrown when it says no or the attempts are used up; the operation rethrows
\* the error it catches.
Attempt ==
  /\ pout.status = "running"
  /\ pout.attempts < numOfAttempts
  /\ \E response \in Responses(pin.operation) :
       LET error == ErrorOf(pin.operation, response)
           attemptNumber == pout.attempts + 1
       IN  pout' =
             [status |-> IF error = NoError THEN "resolved"
                         ELSE IF ~retry(error) \/ attemptNumber >= numOfAttempts
                           THEN "rejected" ELSE "running",
              attempts |-> attemptNumber,
              responses |-> Append(pout.responses, response),
              error |-> error]
  /\ UNCHANGED <<pin, callVars, releaseVars>>

SpecBackOff == InitBackOff /\ [][Attempt]_vars

\* The responses the claim names as non-retryable.
NamedNonRetryable(operation) ==
  CASE operation \in {"getLastKnownVersion", "updateVersion"} -> {"AccessDeniedException"}
    [] operation = "publishReleaseNotification" ->
         {"NotFoundException", "AuthorizationErrorException"}
    [] operation = "getLatestRelease" -> {"403"}

IsClassified(error) == error.class \notin {"none", "Error"}

NonRetryable(error) == IsClassified(error) /\ error.retryable = FALSE

IsRetryable(error) == IsClassified(error) /\ error.retryable = TRUE

\* C25: each of the four operations calls its underlying request at most 3
\* times; a non-retryable error (among them SSM access denied, SNS topic not
\* found or authorization error, GitHub 403) ends the operation at the attempt
\* that met it, raised with retryable = false, so that when the first attempt
\* meets it there was exactly one attempt; every attempt that was followed by
\* another failed with an error classified retryable or not classified.
C25_Retries ==
  LET n == Len(pout.responses)
  IN  /\ pout.attempts = n
      /\ n <= 3
      /\ \A k \in 1..n :
           LET e == ErrorOf(pin.operation, pout.responses[k])
           IN  /\ pout.responses[k] \in NamedNonRetryable(pin.operation)
                    => NonRetryable(e)
               /\ NonRetryable(e)
                    => (k = n /\ pout.status = "rejected" /\ pout.error = e)
               /\ k < n => (IsRetryable(e) \/ e = Unclassified)
      /\ (n = 3 /\ pout.error # NoError) => pout.status = "rejected"

C25_Witness ==
  /\ pout.status = "rejected"
  /\ pout.attempts = 1
  /\ pout.responses[1] \in NamedNonRetryable(pin.operation)

\* --------------------------------------------------------------- C26 to C29

BatchedOps == {"getCostForLeases", "getCostForRange", "getDailyCostsByAccount"}

\* The accounts the call was given.
SuppliedAccounts ==
  IF op = "getDailyCostsByAccount" THEN Range(args.ids) ELSE DOMAIN args.accts

\* The batches whose queries, among those sent so far, name account a.
BatchesQueriedFor(a) ==
  {plan[k].batch : k \in {j \in Range(issued) : a \in Range(plan[j].input.Accounts)}}

CeilDiv(n, size) == (n + size - 1) \div size

\* C27: getDailyCostsByAccount has one query per batch, ceil(n /
\* MAX_ACCOUNTS_IN_FILTER) of them for n account ids; each is sent at most
\* once, also after it failed; the queries sent are never taken back; the call
\* has resolved exactly when every one of them has settled, and then each was
\* sent exactly once.
C27_OneQueryPerBatch ==
  /\ [](op = "getDailyCostsByAccount" =>
          /\ Len(plan) = CeilDiv(Len(args.ids), MAX_ACCOUNTS_IN_FILTER)
          /\ \A b \in DOMAIN plan : plan[b].batch = b
          /\ Range(issued) \subseteq DOMAIN plan
          /\ \A b \in DOMAIN plan :
               Cardinality({i \in DOMAIN issued : issued[i] = b}) <= 1
          /\ DOMAIN log \subseteq Range(issued)
          /\ inflight = Range(issued) \ DOMAIN log
          /\ (pc = "resolved") <=> (DOMAIN log = DOMAIN plan)
          /\ pc = "resolved" =>
               \A b \in DOMAIN plan :
                 Cardinality({i \in DOMAIN issued : issued[i] = b}) = 1)
  /\ [][(op = "getDailyCostsByAccount" /\ op' = op) =>
          /\ Len(issued') >= Len(issued)
          /\ SubSeq(issued', 1, Len(issued)) = issued
          /\ \A b \in DOMAIN log : b \in DOMAIN log' /\ log'[b] = log[b]]_vars

\* C27 witness: more ids than one batch holds, the first query sent failed,
\* and the call resolved after one query per batch.
C27_Witness ==
  /\ op = "getDailyCostsByAccount"
  /\ pc = "resolved"
  /\ Len(args.ids) > MAX_ACCOUNTS_IN_FILTER
  /\ Len(plan) >= 2
  /\ Len(issued) = Len(plan)
  /\ log[issued[1]].status = "rejected"

\* The plan of getCostForLeases called with account a alone: the same lease
\* start, end and granularity.
AlonePlan(a) ==
  LeasePlan(batch(<<[id |-> a, start |-> args.accts[a]]>>, MAX_ACCOUNTS_IN_FILTER),
            args.end, args.granularity, 1)

\* A query is answered with the billing data of its range: buckets when the
\* range has any, no ResultsByTime when it is empty.
DataOutcome(q) == IF BucketStarts(q) = <<>> THEN "empty" ELSE "data"

RECURSIVE AloneTotalFrom(_, _, _)
\* The total of account a over the queries k.. of the plan of the call with a
\* alone, every query answered with the same billing data.
AloneTotalFrom(steps, a, k) ==
  IF k > Len(steps) THEN 0
  ELSE getCost(SubReport(steps[k], DataOutcome(steps[k].input), args.used), a)[1]
         + AloneTotalFrom(steps, a, k + 1)

\* Every query of the call was answered with its billing data.
AnsweredWithData ==
  /\ DOMAIN log = DOMAIN plan
  /\ \A k \in DOMAIN log : log[k].outcome = DataOutcome(plan[k].input)

\* C28: the total getCostForLeases reports for an account is the total the
\* same call reports for it when the account is supplied alone (same lease
\* start, end, granularity and billing data): the other accounts of the call
\* do not change it.
C28_TotalIndependentOfOtherAccounts ==
  (op = "getCostForLeases" /\ pc = "resolved" /\ AnsweredWithData) =>
    \A a \in DOMAIN args.accts :
      (\A k \in DOMAIN AlonePlan(a) : ~AlonePlan(a)[k].throws) =>
        getCost(returned.value, a) = Num(AloneTotalFrom(AlonePlan(a), a, 1))

\* C29: every query sent by getCostForLeases, in DAILY or HOURLY mode, has a
\* time range with its formatted start strictly before its formatted end.
C29_NonEmptyTimeRange ==
  op = "getCostForLeases" =>
    \A k \in Range(issued) :
      /\ plan[k].input.Start.pattern = plan[k].input.End.pattern
      /\ TimeOf(plan[k].input.Start) < TimeOf(plan[k].input.End)

\* C30: over any sequence of runs of the release checker, failed and retried
\* runs included, no two published notifications are for the same change of
\* the latest release (the same tag, fetched while it was the same latest
\* release).
C30_NotifiedAtMostOnce ==
  \A i, j \in DOMAIN notifications :
    (i < j /\ notifications[i].tagName = notifications[j].tagName)
      => notifications[i].change # notifications[j].change

====
